---- MODULE Spec2Model ----
(***************************************************************************)
(* A state-machine model of sdpython/covidsim:                             *)
(*   - aftercovid/optim/sgd.py: BaseOptimizer / SGDOptimizer (update_coef, *)
(*     iteration_ends, train), checked under SpecOpt;                      *)
(*   - the compartment model's iterate loop and the parameter registry,    *)
(*     whose code is exercised by tests/test_models_covid_sir.py.          *)
(* Floating point numbers are modelled as exact rationals <<num, den>>     *)
(* (den > 0, lowest terms).  Arrays of shape (k,) are sequences of length  *)
(* k.  Python's None is the empty sequence <<>>, a value v is <<v>>.       *)
(***************************************************************************)
EXTENDS Integers, Sequences, FiniteSets, TLC

\* ------------------------------------------------------------------ bounds
\* Length of the coefficient vector handed to the constructor.
CoefDim == 2
\* Largest number of rows of X and y handed to train.
MaxRows == 2
\* Largest max_iter handed to train.
MaxIter == 2
\* Number of public calls (train, update_coef, iteration_ends) made on the optimizer.
MaxCalls == 2
\* Number of per-sample updates the calls of one run apply in total.
MaxSamples == 4
\* Number of public calls (iterate, iterate2array, update) made on the compartment model.
MaxOps == 3
\* Number of item reads and writes made on the parameter registry.
MaxAccesses == 3
\* Steps of one iterate pass (the default n of iterate).
Horizon == 10

\* --------------------------------------------------------------- rationals
Abs(n) == IF n < 0 THEN -n ELSE n

RECURSIVE GCD(_, _)
GCD(a, b) == IF b = 0 THEN a ELSE GCD(b, a % b)

Rat(n, d) ==
    LET s == IF d < 0 THEN -1 ELSE 1
        g == GCD(Abs(n), Abs(d))
    IN  <<(s * n) \div g, (s * d) \div g>>

R(n) == <<n, 1>>
\* sums are taken over the least common denominator
RAdd(a, b) ==
    LET g == GCD(a[2], b[2])
    IN  Rat(a[1] * (b[2] \div g) + b[1] * (a[2] \div g), (a[2] \div g) * b[2])
RNeg(a) == <<-a[1], a[2]>>
RSub(a, b) == RAdd(a, RNeg(b))
RMul(a, b) == Rat(a[1] * b[1], a[2] * b[2])
RDiv(a, b) == Rat(a[1] * b[2], a[2] * b[1])
RLe(a, b) == RSub(a, b)[1] <= 0
RAbs(a) == <<Abs(a[1]), a[2]>>
RSign(a) == R(IF a[1] > 0 THEN 1 ELSE IF a[1] < 0 THEN -1 ELSE 0)

RECURSIVE RPow(_, _)
RPow(a, k) == IF k = 0 THEN R(1) ELSE RMul(a, RPow(a, k - 1))

\* ------------------------------------------------------------------ arrays
None == <<>>
Some(v) == <<v>>

Shape(a) == Len(a)
\* numpy broadcasting of a one-element array against a longer one
At(a, i) == IF Len(a) = 1 THEN a[1] ELSE a[i]
Zeros(k) == [i \in 1..k |-> R(0)]
VScale(r, a) == [i \in 1..Len(a) |-> RMul(r, a[i])]
VSub(a, b) == [i \in 1..Len(a) |-> RSub(a[i], At(b, i))]
VAdd(a, b) == [i \in 1..Len(a) |-> RAdd(a[i], At(b, i))]

RECURSIVE Dot(_, _)
Dot(a, b) == IF a = <<>> THEN R(0)
             ELSE RAdd(RMul(Head(a), Head(b)), Dot(Tail(a), Tail(b)))

\* ------------------------------------------------------------------ state
VARIABLES
    \* SGDOptimizer attributes
    coef,               \* self.coef
    velocity,           \* self.velocity
    learning_rate,      \* self.learning_rate
    learning_rate_init, \* self.learning_rate_init
    lr_schedule,        \* self.lr_schedule
    momentum,           \* self.momentum
    power_t,            \* self.power_t
    self_early_th,      \* self.early_th (the constructor's early_th)
    iter_,              \* self.iter_ : None until train records an epoch
    \* the frame of the running train call
    pc,                 \* "idle" | "for" | "row" | "hook" | "loss" | "return"
    X, y,               \* train's datasets
    fct_grad,           \* which gradient function the caller passed
    max_iter,           \* train's max_iter
    early_th,           \* train's early_th argument
    loss,               \* local loss
    n_samples,          \* local n_samples
    it,                 \* epochs completed by the for loop of train
    irows,              \* the epoch's bootstrap sample of row numbers
    k,                  \* position of the inner loop in irows
    \* what the caller observes
    err,                \* <<type, message>> of the exception the last public call raised
    ret,                \* value returned by the last train call that returned
    \* history
    hooks,              \* iteration_ends calls made by the running train call
    hook_arg,           \* time_step of the last of them
    calls,              \* public calls made so far
    samples,            \* update_coef calls that have updated coef so far
    \* the compartment model (CovidSIR)
    q,                  \* current value of every compartment
    sim_pc,             \* "idle" | "gen": an iterate pass is running
    sim,                \* states yielded so far by the running or last pass
    caller,             \* who consumes the pass: "list" or "iterate2array"
    out,                \* array returned by the last iterate2array, or None
    left,               \* state the last finished public call left the model in
    ops,                \* public calls made on the model so far
    \* the parameter registry (BaseSIR)
    regP, regQ, regC,   \* the triples (name, value, description) of P, Q, C
    reg_out,            \* value returned by the last item read, or None
    reg_err,            \* <<type, message>> of the exception the last item access raised
    written,            \* per name, the value last written (or constructed)
    names0,             \* names as returned right after construction
    accesses            \* item accesses made so far

optVars == <<coef, velocity, learning_rate, learning_rate_init, lr_schedule,
             momentum, power_t, self_early_th, iter_>>
frameVars == <<pc, X, y, fct_grad, max_iter, early_th, loss, n_samples, it,
               irows, k, hooks, hook_arg>>
sgdVars == <<optVars, frameVars, err, ret, calls, samples>>
simVars == <<q, sim_pc, sim, caller, out, left, ops>>
regVars == <<regP, regQ, regC, reg_out, reg_err, written, names0, accesses>>
vars == <<sgdVars, simVars, regVars>>

\* ------------------------------------------------------------------ inputs
\* An argument of train: an ndarray with its rows, or some other object.
Array(rows) == [isarray |-> TRUE, rows |-> rows]
NotArray == [isarray |-> FALSE, rows |-> <<>>]
IsArray(a) == a.isarray
Shape0(a) == Len(a.rows)

\* Row i of the dataset the caller trains on: a unit vector and its target.
DataX(i) == [j \in 1..CoefDim |-> IF j = ((i - 1) % CoefDim) + 1 THEN R(1) ELSE R(0)]
DataY(i) == R(i)
XArgs == {Array([i \in 1..n |-> DataX(i)]) : n \in 1..MaxRows} \cup {NotArray}
YArgs == {Array([i \in 1..n |-> DataY(i)]) : n \in 1..MaxRows} \cup {NotArray}
EarlyThs == {None, Some(R(1))}
GradFns == {"abserr", "badshape"}
GradVals == {R(1)}
TimeSteps == {0, 1}
GradShapes == {1, CoefDim, CoefDim + 1}
Grads == UNION {[1..s -> GradVals] : s \in GradShapes}
\* The constructor's arguments lr_schedule, momentum, power_t, early_th.
Ctor(s, m, p, e) == [lr_schedule |-> s, momentum |-> m, power_t |-> p, early_th |-> e]
CtorArgs == {Ctor("constant", R(0), 1, None),
             Ctor("constant", R(1), 1, Some(R(1))),
             Ctor("adaptive", R(1), 1, None),
             Ctor("invscaling", R(0), 2, None),
             Ctor("invscaling", R(1), 1, None)}

\* The caller's loss f(coef, X, y) -> float: the absolute error of X @ coef,
\* sum(|X @ coef - y|).
RECURSIVE AbsErr(_, _, _)
AbsErr(c, xs, ys) ==
    IF xs = <<>> THEN R(0)
    ELSE RAdd(RAbs(RSub(Dot(Head(xs), c), Head(ys))),
              AbsErr(c, Tail(xs), Tail(ys)))
fct_loss(c, Xa, ya) == AbsErr(c, Xa.rows, ya.rows)

\* The caller's gradient g(coef, x, y) -> array: the gradient of that loss on
\* one row, x * sign(x @ coef - y), or an array of the wrong shape.
Gradient(fg, c, x, yv) ==
    IF fg = "abserr" THEN VScale(RSign(RSub(Dot(x, c), yv)), x)
    ELSE [i \in 1..(Len(c) + 1) |-> R(1)]

\* ------------------------------------------------------- SGDOptimizer code
\* update_coef's guard letting a one-element gradient through to be broadcast
ShapeMismatchBroadcast(c, grad) == Shape(c) # Shape(grad) /\ Shape(grad) # 1

\* update_coef's guard
ShapeMismatch(c, grad) == Shape(c) # Shape(grad)

\* _get_updates forgetting the momentum term
GetUpdatesNoMomentum(mom, vel, lr, grad) == VSub(VScale(R(0), vel), VScale(lr, grad))

\* _get_updates: the update, which also becomes the velocity
GetUpdates(mom, vel, lr, grad) == VSub(VScale(mom, vel), VScale(lr, grad))

\* update_coef past its guard: self.velocity = update; self.coef += update
UpdateCoef(grad) ==
    LET update == GetUpdates(momentum, velocity, learning_rate, grad)
    IN  /\ velocity' = update
        /\ coef' = VAdd(coef, update)

\* iteration_ends scaling the current rate instead of the initial one
ScheduledRateFromCurrent(sched, lr, lr_init, pt, time_step) ==
    IF sched = "invscaling"
    THEN RDiv(lr, RPow(R(time_step + 1), pt))
    ELSE lr

\* iteration_ends
ScheduledRate(sched, lr, lr_init, pt, time_step) ==
    IF sched = "invscaling"
    THEN RDiv(lr_init, RPow(R(time_step + 1), pt))
    ELSE lr

IterationEnds(time_step) ==
    learning_rate' = ScheduledRate(lr_schedule, learning_rate,
                                   learning_rate_init, power_t, time_step)

\* --------------------------------------------------------------- exceptions
NoError == <<"none", "">>
XNotArray == <<"TypeError", "X must be an array.">>
YNotArray == <<"TypeError", "y must be an array.">>
RowsDiffer == <<"ValueError", "X and y must have the same number of rows.">>
ShapesDiffer == <<"ValueError", "coef and grad must have the same shape.">>
\* the registry's lookup error (assertRaises(ValueError) in test_base_sir)
UnknownName == <<"ValueError", "unknown name">>

\* ------------------------------------------------------------------- Init
\* The compartment model and the registry while only the optimizer is studied.
SimAtRest ==
    /\ q = <<>> /\ sim_pc = "idle" /\ sim = <<>> /\ caller = "none"
    /\ out = None /\ left = <<>> /\ ops = 0
RegAtRest ==
    /\ regP = <<>> /\ regQ = <<>> /\ regC = <<>> /\ reg_out = None
    /\ reg_err = NoError /\ written = <<>> /\ names0 = {} /\ accesses = 0

NoFrame ==
    /\ pc = "idle" /\ X = None /\ y = None /\ fct_grad = "none"
    /\ max_iter = 0 /\ early_th = None /\ loss = None /\ n_samples = 0
    /\ it = 0 /\ irows = <<>> /\ k = 0 /\ hooks = 0 /\ hook_arg = None

\* SGDOptimizer.__init__
InitOpt ==
    /\ coef = Zeros(CoefDim)
    /\ learning_rate_init = R(1)
    /\ learning_rate = learning_rate_init
    /\ \E a \in CtorArgs :
          /\ lr_schedule = a.lr_schedule
          /\ momentum = a.momentum
          /\ power_t = a.power_t
          /\ self_early_th = a.early_th
    /\ velocity = Zeros(Len(coef))
    /\ iter_ = None
    /\ NoFrame
    /\ err = NoError /\ ret = None /\ calls = 0 /\ samples = 0
    /\ SimAtRest /\ RegAtRest

\* ---------------------------------------------------------------- actions
\* the argument checks of train without the isinstance test of y
TrainCheckNoY(Xa, ya) ==
    IF ~IsArray(Xa) THEN XNotArray
    ELSE IF Shape0(Xa) # Shape0(ya) THEN RowsDiffer
    ELSE NoError

\* the argument checks of train: the exception they raise, or NoError
TrainCheck(Xa, ya) ==
    IF ~IsArray(Xa) THEN XNotArray
    ELSE IF ~IsArray(ya) THEN YNotArray
    ELSE IF Shape0(Xa) # Shape0(ya) THEN RowsDiffer
    ELSE NoError

PopFrame ==
    /\ pc' = "idle" /\ X' = None /\ y' = None /\ fct_grad' = "none"
    /\ max_iter' = 0 /\ early_th' = None /\ loss' = None /\ n_samples' = 0
    /\ it' = 0 /\ irows' = <<>> /\ k' = 0 /\ hooks' = 0 /\ hook_arg' = None

\* An exception leaves the running call.
Raise(e) == err' = e /\ PopFrame

\* train, up to the for loop
TrainCall(Xa, ya, fg, mi, eth) ==
    /\ pc = "idle" /\ calls < MaxCalls
    /\ samples + Shape0(Xa) * mi <= MaxSamples
    /\ calls' = calls + 1
    /\ UNCHANGED samples
    /\ IF TrainCheck(Xa, ya) # NoError
       THEN Raise(TrainCheck(Xa, ya)) /\ UNCHANGED <<optVars, ret>>
       ELSE /\ X' = Xa /\ y' = ya /\ fct_grad' = fg
            /\ max_iter' = mi /\ early_th' = eth
            /\ loss' = Some(fct_loss(coef, Xa, ya))
            /\ n_samples' = 0
            /\ it' = 0 /\ irows' = <<>> /\ k' = 0
            /\ hooks' = 0 /\ hook_arg' = None
            /\ err' = NoError
            /\ pc' = "for"
            /\ UNCHANGED <<optVars, ret>>
    /\ UNCHANGED <<simVars, regVars>>

\* the for loop of train testing early_th before it starts an epoch
EpochBeginTestsFirst ==
    /\ pc = "for"
    /\ IF it < max_iter /\ ~(early_th # None /\ RLe(loss[1], early_th[1]))
       THEN /\ irows' \in [1..Shape0(X) -> 1..Shape0(X)]
            /\ k' = 1
            /\ pc' = "row"
       ELSE /\ pc' = "return"
            /\ UNCHANGED <<irows, k>>
    /\ UNCHANGED <<optVars, X, y, fct_grad, max_iter, early_th, loss,
                   n_samples, it, hooks, hook_arg, err, ret, calls, samples>>
    /\ UNCHANGED <<simVars, regVars>>

\* for it in range(max_iter): irows = numpy.random.choice(n, n)
EpochBegin ==
    /\ pc = "for"
    /\ IF it < max_iter
       THEN /\ irows' \in [1..Shape0(X) -> 1..Shape0(X)]
            /\ k' = 1
            /\ pc' = "row"
       ELSE /\ pc' = "return"
            /\ UNCHANGED <<irows, k>>
    /\ UNCHANGED <<optVars, X, y, fct_grad, max_iter, early_th, loss,
                   n_samples, it, hooks, hook_arg, err, ret, calls, samples>>
    /\ UNCHANGED <<simVars, regVars>>

\* for irow in irows: grad = fct_grad(...); self.update_coef(grad); n_samples += 1
SampleStep ==
    /\ pc = "row"
    /\ LET irow == irows[k]
           grad == Gradient(fct_grad, coef, X.rows[irow], y.rows[irow])
       IN  IF ShapeMismatch(coef, grad)
           THEN /\ Raise(ShapesDiffer)
                /\ UNCHANGED <<optVars, ret, calls, samples>>
           ELSE /\ UpdateCoef(grad)
                /\ samples' = samples + 1
                /\ n_samples' = n_samples + 1
                /\ k' = k + 1
                /\ pc' = IF k = Len(irows) THEN "hook" ELSE "row"
                /\ UNCHANGED <<learning_rate, learning_rate_init, lr_schedule,
                               momentum, power_t, self_early_th, iter_,
                               X, y, fct_grad, max_iter, early_th, loss, it,
                               irows, hooks, hook_arg, err, ret, calls>>
    /\ UNCHANGED <<simVars, regVars>>

\* self.iteration_ends(n_samples)
EpochHook ==
    /\ pc = "hook"
    /\ IterationEnds(n_samples)
    /\ hooks' = hooks + 1
    /\ hook_arg' = Some(n_samples)
    /\ pc' = "loss"
    /\ UNCHANGED <<coef, velocity, learning_rate_init, lr_schedule, momentum,
                   power_t, self_early_th, iter_, X, y, fct_grad, max_iter,
                   early_th, loss, n_samples, it, irows, k, err, ret, calls,
                   samples>>
    /\ UNCHANGED <<simVars, regVars>>

\* the break test of train with a strict comparison
StopsEarlyStrict(eth, l) == eth # None /\ ~RLe(eth[1], l)

\* the break test of train
StopsEarly(eth, l) == eth # None /\ RLe(l, eth[1])

\* the end of an epoch recording self.iter_ = it
EpochLossIterOffByOne ==
    /\ pc = "loss"
    /\ loss' = Some(fct_loss(coef, X, y))
    /\ iter_' = Some(it)
    /\ it' = it + 1
    /\ pc' = IF early_th # None /\ RLe(loss'[1], early_th[1]) THEN "return" ELSE "for"
    /\ UNCHANGED <<coef, velocity, learning_rate, learning_rate_init,
                   lr_schedule, momentum, power_t, self_early_th, X, y,
                   fct_grad, max_iter, early_th, n_samples, irows, k, hooks,
                   hook_arg, err, ret, calls, samples>>
    /\ UNCHANGED <<simVars, regVars>>

\* loss = fct_loss(...); self.iter_ = it + 1; if early_th ... break
EpochLoss ==
    /\ pc = "loss"
    /\ loss' = Some(fct_loss(coef, X, y))
    /\ iter_' = Some(it + 1)
    /\ it' = it + 1
    /\ pc' = IF StopsEarly(early_th, loss'[1]) THEN "return" ELSE "for"
    /\ UNCHANGED <<coef, velocity, learning_rate, learning_rate_init,
                   lr_schedule, momentum, power_t, self_early_th, X, y,
                   fct_grad, max_iter, early_th, n_samples, irows, k, hooks,
                   hook_arg, err, ret, calls, samples>>
    /\ UNCHANGED <<simVars, regVars>>

\* return loss
TrainReturn ==
    /\ pc = "return"
    /\ ret' = loss
    /\ PopFrame
    /\ UNCHANGED <<optVars, err, calls, samples>>
    /\ UNCHANGED <<simVars, regVars>>

\* a caller's own update_coef(grad)
CallUpdateCoef(grad) ==
    /\ pc = "idle" /\ calls < MaxCalls /\ samples < MaxSamples
    /\ calls' = calls + 1
    /\ IF ShapeMismatch(coef, grad)
       THEN /\ err' = ShapesDiffer
            /\ UNCHANGED <<optVars, frameVars, ret, samples>>
       ELSE /\ UpdateCoef(grad)
            /\ samples' = samples + 1
            /\ err' = NoError
            /\ UNCHANGED <<learning_rate, learning_rate_init, lr_schedule,
                           momentum, power_t, self_early_th, iter_,
                           frameVars, ret>>
    /\ UNCHANGED <<simVars, regVars>>

\* a caller's own iteration_ends(time_step)
CallIterationEnds(time_step) ==
    /\ pc = "idle" /\ calls < MaxCalls
    /\ calls' = calls + 1
    /\ IterationEnds(time_step)
    /\ err' = NoError
    /\ UNCHANGED <<coef, velocity, learning_rate_init, lr_schedule, momentum,
                   power_t, self_early_th, iter_, frameVars, ret, samples>>
    /\ UNCHANGED <<simVars, regVars>>

NextOpt ==
    \/ \E Xa \in XArgs, ya \in YArgs, fg \in GradFns,
          mi \in 0..MaxIter, eth \in EarlyThs : TrainCall(Xa, ya, fg, mi, eth)
    \/ EpochBegin
    \/ SampleStep
    \/ EpochHook
    \/ EpochLoss
    \/ TrainReturn
    \/ \E grad \in Grads : CallUpdateCoef(grad)
    \/ \E time_step \in TimeSteps : CallIterationEnds(time_step)

SpecOpt == InitOpt /\ [][NextOpt]_vars

\* ------------------------------------------------- optimizer properties
\* number of rows of the dataset the running train call works on
NRows == Shape0(X)
\* the gradient the inner loop of train is about to apply
RowGrad == Gradient(fct_grad, coef, X.rows[irows[k]], y.rows[irows[k]])
\* the loss held by the running train call is at or below threshold th
AtOrBelow(th) == th # None /\ loss # None /\ RSub(loss[1], th[1])[1] <= 0
\* a step that returns from train returns its local loss and leaves coef alone
ReturnsLoss == pc = "return" => (ret' = loss /\ coef' = coef /\ pc' = "idle")

\* update_coef failed on the shapes and changed nothing
ShapeRejected ==
    /\ err' = ShapesDiffer
    /\ coef' = coef /\ velocity' = velocity /\ learning_rate' = learning_rate

\* C1: update_coef(grad) with a gradient whose shape differs from coef's
\* raises the shape error and leaves coef, velocity and learning_rate as they
\* were, whether the caller or train's inner loop makes the call.
C1_ShapeGuard ==
    [][ /\ \A grad \in Grads :
              (Len(grad) # Len(coef) /\ CallUpdateCoef(grad)) => ShapeRejected
        /\ (pc = "row" /\ Len(RowGrad) # Len(coef) /\ SampleStep) => ShapeRejected
      ]_vars

\* C1 witness: a rejected update_coef after updates that moved the velocity.
C1_Witness ==
    /\ err = ShapesDiffer /\ samples > 0
    /\ velocity # [i \in 1..Len(coef) |-> R(0)]

\* what C2 says of every state of a train call
C2_States ==
    /\ (pc \in {"for", "row", "hook", "loss"} /\ it >= 1) => ~AtOrBelow(early_th)
    /\ (pc = "return" /\ it < max_iter) => AtOrBelow(early_th)
    /\ (pc = "return" /\ it >= 1 /\ AtOrBelow(early_th)) => n_samples = it * NRows

\* C2: with early_th = t, train goes on after an epoch only if that epoch's
\* loss is above t; it returns before max_iter epochs only with a loss <= t;
\* it applies no update after the stopping epoch and returns that loss.
C2_EarlyStop == []C2_States /\ [][ReturnsLoss]_vars

\* C2 witness: train is returning after fewer than max_iter epochs.
C2_Witness == pc = "return" /\ it >= 1 /\ it < max_iter /\ early_th # None

\* C3: a train call with X or y not an array raises TypeError, one with
\* arrays of different row counts raises ValueError, and in both cases coef,
\* velocity, learning_rate and iter_ are unchanged, no update is applied and
\* the schedule hook is not called.  (The checks read neither max_iter nor
\* fct_grad nor early_th: a rejected call is the same step whatever they are.)
C3_RejectsBadInputs ==
    [][ (pc = "idle" /\ calls' # calls) =>
          \A Xa \in XArgs, ya \in YArgs :
            ( /\ ~Xa.isarray \/ ~ya.isarray \/ Len(Xa.rows) # Len(ya.rows)
              /\ TrainCall(Xa, ya, "abserr", 0, None) )
            => /\ err'[1] = IF ~Xa.isarray \/ ~ya.isarray
                            THEN "TypeError" ELSE "ValueError"
               /\ coef' = coef /\ velocity' = velocity
               /\ learning_rate' = learning_rate /\ iter_' = iter_
               /\ samples' = samples /\ hooks' = 0 /\ pc' = "idle"
      ]_vars

\* C3 witness: train rejected its y after an earlier call had trained.
C3_Witness == err = YNotArray /\ iter_ # None /\ samples > 0

\* the momentum update of C4 for gradient grad
MomentumUpdate(grad) ==
    /\ velocity' = [i \in 1..Len(coef) |->
                      RSub(RMul(momentum, velocity[i]),
                           RMul(learning_rate, grad[i]))]
    /\ coef' = [i \in 1..Len(coef) |-> RAdd(coef[i], velocity'[i])]

\* C4: velocity is zero after construction; a successful update_coef(grad)
\* sets velocity' = momentum * velocity - learning_rate * grad and
\* coef' = coef + velocity'; no other step (iteration_ends, the start or end
\* of train, a rejected call) changes velocity.
C4_Velocity ==
    /\ velocity = [i \in 1..Len(coef) |-> R(0)]
    /\ [][ IF samples' # samples
           THEN \/ pc = "row" /\ MomentumUpdate(RowGrad)
                \/ /\ pc = "idle"
                   /\ \E grad \in Grads :
                         Len(grad) = Len(coef) /\ MomentumUpdate(grad)
           ELSE velocity' = velocity
         ]_vars

\* C4 witness: a second train call starts its first update with the velocity
\* the earlier call left.
C4_Witness ==
    /\ pc = "row" /\ n_samples = 0 /\ iter_ # None
    /\ velocity # [i \in 1..Len(coef) |-> R(0)]
    /\ momentum # R(0)

\* learning_rate_init / (t + 1) ** power_t
InvScaled(t) == RDiv(learning_rate_init, RPow(R(t + 1), power_t))

Rank ==
    CASE pc = "for" -> (max_iter - it) * (NRows + 3) + 1
      [] pc = "row" -> (max_iter - it - 1) * (NRows + 3) + (NRows - k + 1) + 3
      [] pc = "hook" -> (max_iter - it - 1) * (NRows + 3) + 3
      [] pc = "loss" -> (max_iter - it - 1) * (NRows + 3) + 2
      [] OTHER -> 0

\* what C6 says of every state of a train call, but for iter_
C6_Epochs ==
    /\ pc # "idle" => it <= max_iter /\ Rank >= 0
    /\ pc = "row" =>
          /\ it < max_iter
          /\ irows \in [1..NRows -> 1..NRows]
          /\ n_samples = it * NRows + (k - 1)
    /\ pc \in {"for", "return"} => n_samples = it * NRows
    /\ (pc = "return" /\ early_th = None) => it = max_iter

\* C6 as stated: train runs at most max_iter epochs of n updates each,
\* exactly max_iter without early_th, and on return iter_ is the number of
\* epochs this call ran.
C6_Original == C6_Epochs /\ (pc = "return" => iter_ = Some(it))

\* C6 as amended: train runs at most max_iter epochs of n updates each (every
\* step of a call lowers the number of steps left), exactly max_iter without
\* early_th; on return iter_ is the number of epochs this call ran when it
\* ran at least one, and iter_ changes only where an epoch ends.
C6_Amended ==
    /\ [](C6_Epochs /\ ((pc = "return" /\ it >= 1) => iter_ = Some(it)))
    /\ [][ /\ pc \notin {"idle", "return"} => Rank' < Rank
           /\ iter_' # iter_ => pc = "loss"
           /\ (pc = "for" /\ it = 0 /\ pc' = "return") => iter_' = iter_
         ]_vars

\* C6 witness: a call without early_th returns after two epochs of two rows,
\* the last of which drew the same row twice.
C6_Witness ==
    /\ pc = "return" /\ early_th = None /\ it = 2 /\ NRows = 2
    /\ irows[1] = irows[2] /\ iter_ = Some(2)

\* C7 as stated: with the constructor's early_th = t and no early_th passed
\* to train, no epoch is started once an epoch's loss is <= t.
C7_CtorThreshold ==
    (pc = "row" /\ it >= 1 /\ early_th = None /\ self_early_th # None)
        => ~AtOrBelow(self_early_th)

\* what C10 says of every state of a train call
C10_States ==
    /\ pc = "return" => loss = Some(fct_loss(coef, X, y))
    /\ (pc = "return" /\ max_iter >= 1) =>
          it >= 1 /\ n_samples >= NRows /\ hooks >= 1
    /\ (pc = "return" /\ max_iter = 0) => n_samples = 0 /\ hooks = 0

\* C10: train tests early_th only at the end of an epoch: with max_iter >= 1
\* it runs a whole epoch (n updates, one hook call) whatever the initial
\* loss; and the value it returns, max_iter = 0 included, is the loss of coef
\* as it stands at return.
C10_TestAfterEpoch == []C10_States /\ [][ReturnsLoss /\ (pc = "return" => UNCHANGED optVars)]_vars

\* C10 witness: the first epoch runs although the initial loss is <= early_th.
C10_Witness == pc = "row" /\ it = 0 /\ n_samples = 0 /\ AtOrBelow(early_th)

\* ------------------------------------------------ compartment model (SIR)
\* Quantities are counted in whole persons and every flow is rounded down.
Compartments == {"S", "I", "R", "D"}
Floor(r) == r[1] \div r[2]

\* CovidSIR(): the default quantities, and cst_param
DefaultQ == [S |-> 9990, I |-> 10, R |-> 0, D |-> 0]
cst_param == [N |-> 10000, beta |-> <<1, 2>>, mu |-> <<1, 14>>, nu |-> <<1, 21>>]

\* eval_diff(state): one entry per compartment, one signed term per flow edge
eval_diff(st) ==
    LET infected == Floor(RDiv(RMul(cst_param.beta, R(st.S * st.I)), R(cst_param.N)))
        recovered == Floor(RMul(cst_param.mu, R(st.I)))
        dead == Floor(RMul(cst_param.nu, R(st.I)))
    IN  [S |-> -infected, I |-> infected - recovered - dead,
         R |-> recovered, D |-> dead]

\* state += eval_diff(state)
Advance(st) == [c \in Compartments |-> st[c] + eval_diff(st)[c]]

\* get(): a snapshot of the current quantities
Get(st) == st

\* what one step of iterate yields once the model has moved from st to new
Yielded(st, new) == Get(new)

\* a fresh iterate pass starting over from the constructor's quantities
PassStartReset(st) == DefaultQ

\* the state a fresh iterate pass starts from, the model being in state st
PassStart(st) == st

\* iterate2array: the yielded states stacked, one row per step
Stack(states) == [i \in 1..Len(states) |->
                    <<states[i].S, states[i].I, states[i].R, states[i].D>>]

UpdateVals == {5, 20}

InitSim ==
    /\ q = DefaultQ
    /\ sim_pc = "idle" /\ sim = <<>> /\ caller = "none" /\ out = None
    /\ left = DefaultQ
    /\ ops = 0

\* iterate() handed to list(), or the pass iterate2array() runs
StartPass(who) ==
    /\ sim_pc = "idle" /\ ops < MaxOps
    /\ ops' = ops + 1
    /\ sim_pc' = "gen"
    /\ caller' = who
    /\ sim' = <<>>
    /\ out' = None
    /\ q' = PassStart(q)
    /\ UNCHANGED left
    /\ UNCHANGED <<sgdVars, regVars>>

\* one turn of iterate's loop: advance the model, yield its state
PassStep ==
    /\ sim_pc = "gen" /\ Len(sim) < Horizon
    /\ q' = Advance(q)
    /\ sim' = Append(sim, Yielded(q, q'))
    /\ UNCHANGED <<sim_pc, caller, out, left, ops>>
    /\ UNCHANGED <<sgdVars, regVars>>

\* the loop of iterate is over: the consumer has the whole trajectory
PassEnd ==
    /\ sim_pc = "gen" /\ Len(sim) >= Horizon
    /\ sim_pc' = "idle"
    /\ out' = IF caller = "iterate2array" THEN Some(Stack(sim)) ELSE None
    /\ left' = q
    /\ UNCHANGED <<q, sim, caller, ops>>
    /\ UNCHANGED <<sgdVars, regVars>>

\* update(**{name: value})
Update(name, value) ==
    /\ sim_pc = "idle" /\ ops < MaxOps
    /\ ops' = ops + 1
    /\ q' = [q EXCEPT ![name] = value]
    /\ left' = q'
    /\ UNCHANGED <<sim_pc, sim, caller, out>>
    /\ UNCHANGED <<sgdVars, regVars>>

NextSim ==
    \/ \E who \in {"list", "iterate2array"} : StartPass(who)
    \/ PassStep
    \/ PassEnd
    \/ \E name \in {"I", "R"}, value \in UpdateVals : Update(name, value)

InitSimSpec ==
    /\ InitSim
    /\ coef = <<>> /\ velocity = <<>> /\ learning_rate = R(0)
    /\ learning_rate_init = R(0) /\ lr_schedule = "none" /\ momentum = R(0)
    /\ power_t = 0 /\ self_early_th = None /\ iter_ = None
    /\ NoFrame /\ err = NoError /\ ret = None /\ calls = 0 /\ samples = 0
    /\ RegAtRest

SpecSim == InitSimSpec /\ [][NextSim]_vars

\* ------------------------------------------------- simulator properties
\* st + eval_diff(st)
Euler(st) == [c \in Compartments |-> st[c] + eval_diff(st)[c]]

\* C8: a pass of iterate yields exactly Horizon states; the first is the
\* state the previous call left the model in advanced by one step, never the
\* constructor's state again; each next one is the previous one advanced by
\* state += eval_diff(state); the state yielded last is what get() returns;
\* and iterate2array returns the states of such a pass.
C8_Iterate ==
    /\ Len(sim) <= Horizon
    /\ (sim_pc = "idle" /\ caller # "none") => Len(sim) = Horizon
    /\ (sim_pc = "gen" /\ sim = <<>>) => q = left
    /\ sim # <<>> =>
          /\ sim[1] = Euler(left) \/ sim_pc = "idle"
          /\ sim[Len(sim)] = Get(q) \/ sim_pc = "idle"
    /\ \A i \in 2..Len(sim) : sim[i] = Euler(sim[i - 1])
    /\ (sim_pc = "idle" /\ caller = "iterate2array") =>
          out = Some([i \in 1..Horizon |->
                        <<sim[i].S, sim[i].I, sim[i].R, sim[i].D>>])

\* C8 witness: a second pass has yielded its first state, one step on from
\* where the first pass ended.
C8_Witness ==
    /\ sim_pc = "gen" /\ Len(sim) = 1 /\ ops = 2
    /\ left # DefaultQ /\ left.S < DefaultQ.S /\ sim[1] # left

\* ------------------------------------------------------ parameter registry
\* BaseSIR(P, Q, C) keeps three lists of triples (name, value, description).
Triple(n, v, d) == <<n, v, d>>
RegNames(l) == {l[i][1] : i \in 1..Len(l)}

\* names: every registered name (sorted in the code; a set here)
names(P, Q, C) == RegNames(P) \cup RegNames(Q) \cup RegNames(C)

\* value of name in one list, None when the list does not hold it
Find(l, name) ==
    IF \E i \in 1..Len(l) : l[i][1] = name
    THEN Some(l[CHOOSE i \in 1..Len(l) : l[i][1] = name][2])
    ELSE None

\* __getitem__: Some(value), or None for a lookup error
GetItem(P, Q, C, name) ==
    IF Find(P, name) # None THEN Find(P, name)
    ELSE IF Find(Q, name) # None THEN Find(Q, name)
    ELSE Find(C, name)

\* one list after a write that forgets to compare the names
StoreAll(l, name, value) ==
    [i \in 1..Len(l) |-> Triple(l[i][1], value, l[i][3])]

\* one list after writing value under name
Store(l, name, value) ==
    [i \in 1..Len(l) |-> IF l[i][1] = name THEN Triple(name, value, l[i][3]) ELSE l[i]]

ItemVals == {<<1, 2>>, <<3, 5>>, <<61, 10>>}
ItemNames == {"p", "q", "N", "r", "qq"}
\* Constructor arguments: names are unique across P, Q and C.
RegArgs == {
    <<  <<Triple("p", <<1, 2>>, "PP")>>,
        <<Triple("q", <<3, 5>>, "QQ")>>,
        <<Triple("N", <<3, 5>>, "NN")>>  >>,
    <<  <<Triple("p", <<1, 2>>, "PP"), Triple("r", <<3, 5>>, "RR")>>,
        <<Triple("q", <<3, 5>>, "QQ")>>,
        <<>>  >> }

InitReg ==
    /\ \E a \in RegArgs : regP = a[1] /\ regQ = a[2] /\ regC = a[3]
    /\ reg_out = None /\ reg_err = NoError
    /\ names0 = names(regP, regQ, regC)
    /\ written = [n \in names0 |-> GetItem(regP, regQ, regC, n)[1]]
    /\ accesses = 0

\* models[name]
ReadItem(name) ==
    /\ accesses < MaxAccesses
    /\ accesses' = accesses + 1
    /\ LET v == GetItem(regP, regQ, regC, name)
       IN  /\ reg_out' = v
           /\ reg_err' = IF v = None THEN UnknownName ELSE NoError
    /\ UNCHANGED <<regP, regQ, regC, written, names0>>
    /\ UNCHANGED <<sgdVars, simVars>>

\* models[name] = value
WriteItem(name, value) ==
    /\ accesses < MaxAccesses
    /\ accesses' = accesses + 1
    /\ reg_out' = None
    /\ IF GetItem(regP, regQ, regC, name) = None
       THEN /\ reg_err' = UnknownName
            /\ UNCHANGED <<regP, regQ, regC, written>>
       ELSE /\ reg_err' = NoError
            /\ regP' = Store(regP, name, value)
            /\ regQ' = Store(regQ, name, value)
            /\ regC' = Store(regC, name, value)
            /\ written' = [written EXCEPT ![name] = value]
    /\ UNCHANGED names0
    /\ UNCHANGED <<sgdVars, simVars>>

NextReg ==
    \/ \E name \in ItemNames : ReadItem(name)
    \/ \E name \in ItemNames, value \in ItemVals : WriteItem(name, value)

InitRegSpec ==
    /\ InitReg
    /\ coef = <<>> /\ velocity = <<>> /\ learning_rate = R(0)
    /\ learning_rate_init = R(0) /\ lr_schedule = "none" /\ momentum = R(0)
    /\ power_t = 0 /\ self_early_th = None /\ iter_ = None
    /\ NoFrame /\ err = NoError /\ ret = None /\ calls = 0 /\ samples = 0
    /\ SimAtRest

SpecReg == InitRegSpec /\ [][NextReg]_vars

\* ------------------------------------------------- registry properties
\* C9: every registered name reads as the value last written to it (its
\* construction value if never written); a write changes no other name's
\* value and never the set of names; reading or writing an unregistered name
\* raises the lookup error and changes no value.
C9_Registry ==
    /\ [](/\ names(regP, regQ, regC) = names0
          /\ \A n \in names0 : GetItem(regP, regQ, regC, n) = Some(written[n]))
    /\ [][ /\ \A n \in ItemNames :
                 ReadItem(n) =>
                    /\ reg_out' = IF n \in names0 THEN Some(written[n]) ELSE None
                    /\ reg_err'[1] = IF n \in names0 THEN "none" ELSE "ValueError"
                    /\ UNCHANGED <<regP, regQ, regC>>
           /\ \A n \in ItemNames, v \in ItemVals :
                 WriteItem(n, v) =>
                    IF n \in names0
                    THEN /\ reg_err'[1] = "none"
                         /\ GetItem(regP', regQ', regC', n) = Some(v)
                         /\ \A m \in names0 \ {n} :
                               GetItem(regP', regQ', regC', m)
                                   = GetItem(regP, regQ, regC, m)
                    ELSE /\ reg_err'[1] = "ValueError"
                         /\ UNCHANGED <<regP, regQ, regC>>
         ]_vars

\* C9 witness: after a write that changed "p", "r" of the same list still
\* reads as constructed and an unregistered name has just been refused.
C9_Witness ==
    /\ reg_err[1] = "ValueError"
    /\ "r" \in names0
    /\ GetItem(regP, regQ, regC, "p") = Some(<<61, 10>>)
    /\ GetItem(regP, regQ, regC, "r") = Some(<<3, 5>>)

====
